---- MODULE Spec2Model ----
(***************************************************************************)
(* The Chat view of the workbench front-end                                *)
(* (workbench-app/src/components/FrontDoor/Chat/Chat.tsx): the             *)
(* 'conversation.updated' subscription effect, the conversationAssistants  *)
(* memo, the render body and the otherParticipants filter.                 *)
(***************************************************************************)
EXTENDS Integers, Sequences, FiniteSets, TLC

\* ------------------------------------------------------------------------
\* Bounds of the model
\* ------------------------------------------------------------------------

\* longest participant list of the memo specification
MaxParticipants == 3

\* longest assistant directory of the memo specification
MaxDirectory == 2

\* ------------------------------------------------------------------------
\* Data
\* ------------------------------------------------------------------------

ParticipantIds == {"u1", "a1", "a2"}

DirectoryIds == {"a1", "a2"}

Roles == {"user", "assistant"}

\* display names; "Bravo" sorts before "alpha" by UTF-16 code unit and after
\* it by locale
Names == {"alpha", "Bravo", "charlie"}

\* a ConversationParticipant, by the fields Chat.tsx reads
ConversationParticipant == [id : ParticipantIds, role : Roles, active : BOOLEAN]

\* an Assistant, by the fields Chat.tsx reads
Assistant == [id : DirectoryIds, name : Names]

\* all sequences over S of length at most n
SeqsUpTo(S, n) == UNION {[1..k -> S] : k \in 0..n}

\* an optional list: undefined, or an array
Absent == [present |-> FALSE, items |-> <<>>]

Loaded(s) == [present |-> TRUE, items |-> s]

\* ------------------------------------------------------------------------
\* conversationAssistants (Chat.tsx 173-200)
\* ------------------------------------------------------------------------

\* the collation key of String.prototype.localeCompare on Names
LocaleRank == [n \in Names |->
    CASE n = "alpha" -> 1 [] n = "Bravo" -> 2 [] n = "charlie" -> 3]

\* the UTF-16 code unit order of Names ('B' = 66 < 'a' = 97 < 'c' = 99)
CodeUnitRank == [n \in Names |->
    CASE n = "Bravo" -> 1 [] n = "alpha" -> 2 [] n = "charlie" -> 3]

\* a.name.localeCompare(b.name) taken as a comparison by code unit
codeUnitCompare(a, b) ==
    IF CodeUnitRank[a] < CodeUnitRank[b] THEN -1
    ELSE IF CodeUnitRank[a] > CodeUnitRank[b] THEN 1 ELSE 0

\* a.localeCompare(b): negative, zero or positive
localeCompare(a, b) ==
    IF LocaleRank[a] < LocaleRank[b] THEN -1
    ELSE IF LocaleRank[a] > LocaleRank[b] THEN 1 ELSE 0

\* one insertion of Array.prototype.sort (stable): x goes after every entry
\* that does not compare greater than it
RECURSIVE insertSorted(_, _)
insertSorted(s, x) ==
    IF s = <<>> THEN <<x>>
    ELSE IF localeCompare(s[Len(s)].name, x.name) > 0
         THEN Append(insertSorted(SubSeq(s, 1, Len(s) - 1), x), s[Len(s)])
         ELSE Append(s, x)

\* results.sort((a, b) => a.name.localeCompare(b.name))
RECURSIVE sortByName(_)
sortByName(s) ==
    IF s = <<>> THEN <<>>
    ELSE insertSorted(sortByName(SubSeq(s, 1, Len(s) - 1)), s[Len(s)])

\* assistants.find((assistant) => assistant.id === id): the index of the
\* first match, 0 for undefined
find(A, id) ==
    IF \E k \in 1..Len(A) : A[k].id = id
    THEN CHOOSE k \in 1..Len(A) :
            A[k].id = id /\ \A j \in 1..(k - 1) : A[j].id # id
    ELSE 0

\* the result of one pass of the memo callback: the returned value (a list or
\* undefined), the number of assistantsRefetch() calls of the pass and the
\* ids handed to assistants.find, in order
Pass(kind, items, refetches, lookedUp) ==
    [kind |-> kind, items |-> items, refetches |-> refetches, lookedUp |-> lookedUp]

\* the filter of line 183 taken as a role test only
onlyRoleSkips(p) == p.role # "assistant"

\* line 183: the participants the loop skips
skips(p) == ~p.active \/ p.role # "assistant"

\* the loop with 'continue' in place of the early return of line 195
RECURSIVE forLoopNoReturn(_, _, _, _, _, _)
forLoopNoReturn(P, A, i, results, refetches, lookedUp) ==
    IF i > Len(P) THEN Pass("list", sortByName(results), refetches, lookedUp)
    ELSE IF skips(P[i]) THEN forLoopNoReturn(P, A, i + 1, results, refetches, lookedUp)
    ELSE IF find(A, P[i].id) # 0
         THEN forLoopNoReturn(P, A, i + 1, Append(results, A[find(A, P[i].id)]),
                              refetches, Append(lookedUp, P[i].id))
         ELSE forLoopNoReturn(P, A, i + 1, results, refetches + 1,
                              Append(lookedUp, P[i].id))

\* lines 181-199: the for loop from participant i on, then the sort
RECURSIVE forLoop(_, _, _, _, _, _)
forLoop(P, A, i, results, refetches, lookedUp) ==
    IF i > Len(P) THEN Pass("list", sortByName(results), refetches, lookedUp)
    ELSE IF skips(P[i]) THEN forLoop(P, A, i + 1, results, refetches, lookedUp)
    ELSE IF find(A, P[i].id) # 0
         THEN forLoop(P, A, i + 1, Append(results, A[find(A, P[i].id)]),
                      refetches, Append(lookedUp, P[i].id))
         ELSE Pass("undefined", <<>>, refetches + 1, Append(lookedUp, P[i].id))

\* a callback that takes a directory not yet loaded for an empty one
conversationAssistantsEmptyDirectory(P, A) ==
    IF ~P.present THEN Pass("list", <<>>, 0, <<>>)
    ELSE forLoop(P.items, IF A.present THEN A.items ELSE <<>>, 1, <<>>, 0, <<>>)

\* lines 173-200: the memo callback on the optional lists P and A
conversationAssistants(P, A) ==
    IF ~P.present \/ ~A.present THEN Pass("list", <<>>, 0, <<>>)
    ELSE forLoop(P.items, A.items, 1, <<>>, 0, <<>>)

\* ------------------------------------------------------------------------
\* otherParticipants (Chat.tsx 228-230)
\* ------------------------------------------------------------------------

\* the results sortParticipants(participants) may return: the utility lives
\* in libs/useParticipantUtility; all that is taken of it is that it returns
\* entries of its argument, each at most once, in an order of its choosing
sortParticipants(participants) ==
    {s \in SeqsUpTo({participants[i] : i \in 1..Len(participants)}, Len(participants)) :
        \E f \in [1..Len(s) -> 1..Len(participants)] :
            /\ \A i, j \in 1..Len(s) : i # j => f[i] # f[j]
            /\ \A i \in 1..Len(s) : s[i] = participants[f[i]]}

\* the filter of line 229 taken as a test of the role
filterByRole(sorted, userId) ==
    SelectSeq(sorted, LAMBDA participant : participant.role # "user")

\* lines 228-230: .filter((participant) => participant.id !== localUserId)
filterOthers(sorted, userId) ==
    SelectSeq(sorted, LAMBDA participant : participant.id # userId)

\* ------------------------------------------------------------------------
\* State
\* ------------------------------------------------------------------------

VARIABLES
    phase,                  \* "init", "mounted", "unmounted" or "crashed"
    \* what useHistoryUtility(conversationId) returned to the last render
    historyError,
    historyIsLoading,
    assistantCapabilitiesIsFetching,
    conversation,
    allConversationMessages,
    conversationParticipants,
    assistants,
    conversationFiles,
    refetchConversation,
    localUserId,            \* state.localUser.id
    \* the event bus and the subscription effect
    listeners,              \* the 'conversation.updated' listeners on the bus
    effect,                 \* React's record of the effect of lines 149-165
    nextHandler,            \* the next conversationHandler closure
    added,                  \* the closures the view has added, in order
    removed,                \* the closures the view has removed, in order
    pending,                \* refetchConversation() calls awaited
    inflight,               \* what each awaited call will return, in call order
    server,                 \* the version of the conversation on the service
    cache,                  \* the version the hook holds
    directoryPending,       \* assistantsRefetch() calls not yet answered
    \* the memo of lines 173-200
    memo,
    \* what the last render returned
    rendered,
    \* the calls made by the last step
    lastStep,
    stepEvent,
    stepRefetchCalls,
    stepAssistantsRefetchCalls,
    \* MyWorkbenchConnector (MyWorkbenchConnector.cs)
    Agents,                 \* this.Agents: the instance registered under each id
    instances,              \* the MyAgent instances created, in order
    starting,               \* the instances whose StartAsync is awaited
    connectorStep           \* the last CreateAgentAsync call or its request

hookVars == <<historyError, historyIsLoading, assistantCapabilitiesIsFetching,
              conversation, allConversationMessages, conversationParticipants,
              assistants, conversationFiles, refetchConversation>>

busVars == <<listeners, effect, nextHandler, added, removed>>

\* the refetches under way and the two versions of the conversation
refetchVars == <<pending, inflight, server, cache>>

connectorVars == <<Agents, instances, starting, connectorStep>>

\* the variables of the Chat view
chatVars == <<phase, hookVars, localUserId, busVars, refetchVars, directoryPending,
              memo, rendered, lastStep, stepEvent, stepRefetchCalls,
              stepAssistantsRefetchCalls>>

vars == <<chatVars, connectorVars>>

\* ------------------------------------------------------------------------
\* The event bus (workbenchConversationEvents, created in routes/FrontDoor)
\* ------------------------------------------------------------------------

\* the identities refetchConversation can have
RefetchFns == {"rc1", "rc2"}

\* the conversationHandler closure number n, which calls refetch
ChatHandler(n, refetch) == [owner |-> "Chat", closure |-> n, refetch |-> refetch]

\* the listener of another subscriber of the bus
OtherHandler == [owner |-> "other", closure |-> 0, refetch |-> "none"]

\* addEventListener('conversation.updated', h)
addEventListener(ls, h) == ls \cup {h}

\* removeEventListener('conversation.updated', h)
removeEventListener(ls, h) == ls \ {h}

\* the listeners of the Chat view on the bus
ChatListeners(ls) == {h \in ls : h.owner = "Chat"}

\* ------------------------------------------------------------------------
\* The subscription effect (Chat.tsx 149-165)
\* ------------------------------------------------------------------------

\* the bus and the effect as one record
Bus(ls, e, n, a, r) ==
    [listeners |-> ls, effect |-> e, nextHandler |-> n, added |-> a, removed |-> r]

\* the effect before its first run
NoEffect == [ran |-> FALSE, deps |-> <<FALSE, "rc1">>, cleanup |-> {}]

\* a cleanup that removes nothing
cleanupKeeps(b) == Bus(b.listeners, NoEffect, b.nextHandler, b.added, b.removed)

\* a cleanup that hands removeEventListener a new closure instead of the
\* one it added
cleanupNewClosure(b) ==
    IF b.effect.cleanup = {} THEN Bus(b.listeners, NoEffect, b.nextHandler, b.added, b.removed)
    ELSE LET conversationHandler == ChatHandler(b.nextHandler, b.effect.deps[2])
         IN  Bus(removeEventListener(b.listeners, conversationHandler), NoEffect,
                 b.nextHandler, b.added, Append(b.removed, conversationHandler.closure))

\* lines 161-164: the function the effect returned, if it returned one
cleanup(b) ==
    IF b.effect.cleanup = {} THEN Bus(b.listeners, NoEffect, b.nextHandler, b.added, b.removed)
    ELSE LET conversationHandler == CHOOSE h \in b.effect.cleanup : TRUE
         IN  Bus(removeEventListener(b.listeners, conversationHandler), NoEffect,
                 b.nextHandler, b.added, Append(b.removed, conversationHandler.closure))

\* the effect body with the test of line 150 inverted
effectBodyInverted(b, loading, refetch) ==
    IF ~loading
    THEN Bus(b.listeners, [ran |-> TRUE, deps |-> <<loading, refetch>>, cleanup |-> {}],
             b.nextHandler, b.added, b.removed)
    ELSE LET conversationHandler == ChatHandler(b.nextHandler, refetch)
         IN  Bus(addEventListener(b.listeners, conversationHandler),
                 [ran |-> TRUE, deps |-> <<loading, refetch>>,
                  cleanup |-> {conversationHandler}],
                 b.nextHandler + 1, Append(b.added, conversationHandler.closure), b.removed)

\* the effect body without the early return of lines 150-152
effectBodyAlways(b, loading, refetch) ==
    LET conversationHandler == ChatHandler(b.nextHandler, refetch)
    IN  Bus(addEventListener(b.listeners, conversationHandler),
            [ran |-> TRUE, deps |-> <<loading, refetch>>, cleanup |-> {conversationHandler}],
            b.nextHandler + 1, Append(b.added, conversationHandler.closure), b.removed)

\* lines 150-164: the effect body, run with the values of the render
effectBody(b, loading, refetch) ==
    IF loading
    THEN Bus(b.listeners, [ran |-> TRUE, deps |-> <<loading, refetch>>, cleanup |-> {}],
             b.nextHandler, b.added, b.removed)
    ELSE LET conversationHandler == ChatHandler(b.nextHandler, refetch)
         IN  Bus(addEventListener(b.listeners, conversationHandler),
                 [ran |-> TRUE, deps |-> <<loading, refetch>>,
                  cleanup |-> {conversationHandler}],
                 b.nextHandler + 1, Append(b.added, conversationHandler.closure), b.removed)

\* an effect that runs its body again without the cleanup of the last run
useEffectNoCleanup(b, loading, refetch) ==
    IF b.effect.ran /\ b.effect.deps = <<loading, refetch>> THEN b
    ELSE effectBody(b, loading, refetch)

\* an effect that only depends on historyIsLoading
useEffectLoadingOnly(b, loading, refetch) ==
    IF b.effect.ran /\ b.effect.deps[1] = loading THEN b
    ELSE effectBody(cleanup(b), loading, refetch)

\* lines 149 and 165: React.useEffect(..., [historyIsLoading,
\* refetchConversation]) at commit: on the first commit and whenever a
\* dependency changed, the last cleanup and then the body
useEffect(b, loading, refetch) ==
    IF b.effect.ran /\ b.effect.deps = <<loading, refetch>> THEN b
    ELSE effectBody(cleanup(b), loading, refetch)

\* ------------------------------------------------------------------------
\* The memo (Chat.tsx 173 and 200)
\* ------------------------------------------------------------------------

\* the memo before its first computation
NoMemo == [ran |-> FALSE, deps |-> <<Absent, Absent>>,
           value |-> Pass("list", <<>>, 0, <<>>)]

\* whether the dependencies differ from those of the last computation;
\* refsChanged says that the hook returned equal lists (or an equal
\* assistantsRefetch) as new objects
memoStale(m, P, A, refsChanged) == ~m.ran \/ m.deps # <<A, P>> \/ refsChanged

\* one call of the hook: the memo it leaves and the assistantsRefetch() calls
\* of the callback, which runs when the value is computed
Computed(m, P, A) ==
    LET value == conversationAssistants(P, A)
    IN  [memo |-> [ran |-> TRUE, deps |-> <<A, P>>, value |-> value],
         calls |-> value.refetches]

\* the hook call that keeps the value it has
Kept(m) == [memo |-> m, calls |-> 0]

\* a memo that is computed once and never again
useMemoOnce(m, P, A, refsChanged) ==
    IF m.ran THEN Kept(m) ELSE Computed(m, P, A)

\* a memo whose dependencies leave out assistants
useMemoWithoutAssistants(m, P, A, refsChanged) ==
    IF m.ran /\ m.deps[2] = P /\ ~refsChanged THEN Kept(m) ELSE Computed(m, P, A)

\* a memo that is not computed again once its callback has found a miss
useMemoGivesUp(m, P, A, refsChanged) ==
    IF ~memoStale(m, P, A, refsChanged) \/ (m.ran /\ m.value.kind = "undefined")
    THEN Kept(m)
    ELSE Computed(m, P, A)

\* React.useMemo(..., [assistants, conversationParticipants,
\* assistantsRefetch]): computed on the first render and whenever a
\* dependency is another object than at the last computation
useMemo(m, P, A, refsChanged) ==
    IF ~memoStale(m, P, A, refsChanged) THEN Kept(m) ELSE Computed(m, P, A)

\* ------------------------------------------------------------------------
\* The render body (Chat.tsx 122-285)
\* ------------------------------------------------------------------------

\* the conversation: undefined, or its conversationPermission
NoConversation == [present |-> FALSE, conversationPermission |-> "none"]

Conversations ==
    {NoConversation} \cup
    {[present |-> TRUE, conversationPermission |-> p] : p \in {"read", "read_write"}}

\* what a render that shows no content hands to its children
NoContent(kind, error) ==
    [kind |-> kind, error |-> error, readOnly |-> FALSE, sorted |-> <<>>,
     otherParticipants |-> <<>>,
     historyReadOnly |-> FALSE, inputReadOnly |-> FALSE, canvasReadOnly |-> FALSE,
     conversationAssistants |-> Pass("list", <<>>, 0, <<>>)]

\* the values useHistoryUtility returns to one render
HookOutput(err, loading, fetching, conv, msgs, P, A, files, refetch) ==
    [historyError |-> err, historyIsLoading |-> loading,
     assistantCapabilitiesIsFetching |-> fetching, conversation |-> conv,
     allConversationMessages |-> msgs, conversationParticipants |-> P,
     assistants |-> A, conversationFiles |-> files, refetchConversation |-> refetch]

\* lines 202-204: TRUE when the render returns <Loading />
showsLoading(h) ==
    ~h.historyError /\ (h.historyIsLoading \/ h.assistantCapabilitiesIsFetching)

\* the throws without the test of historyError of lines 144-147
thrownWithoutHistoryError(h) ==
    IF h.historyIsLoading \/ h.assistantCapabilitiesIsFetching THEN "none"
    ELSE IF ~h.conversation.present THEN "Conversation not found"
    ELSE IF ~h.allConversationMessages THEN "All conversation messages not found"
    ELSE IF ~h.conversationParticipants.present
         THEN "Conversation participants not found"
    ELSE IF ~h.assistants.present THEN "Assistants not found"
    ELSE IF ~h.conversationFiles THEN "Conversation files not found"
    ELSE "none"

\* a render that takes an active assistant participant missing from the
\* directory for an error
thrownOnMiss(h) ==
    IF h.historyError THEN "Error loading conversation"
    ELSE IF h.historyIsLoading \/ h.assistantCapabilitiesIsFetching THEN "none"
    ELSE IF ~h.conversation.present THEN "Conversation not found"
    ELSE IF ~h.allConversationMessages THEN "All conversation messages not found"
    ELSE IF ~h.conversationParticipants.present
         THEN "Conversation participants not found"
    ELSE IF ~h.assistants.present THEN "Assistants not found"
    ELSE IF conversationAssistants(h.conversationParticipants, h.assistants).kind
                = "undefined"
         THEN "Assistants not found"
    ELSE IF ~h.conversationFiles THEN "Conversation files not found"
    ELSE "none"

\* the throws without the test of conversationFiles of lines 222-224
thrownWithoutFiles(h) ==
    IF h.historyError THEN "Error loading conversation"
    ELSE IF h.historyIsLoading \/ h.assistantCapabilitiesIsFetching THEN "none"
    ELSE IF ~h.conversation.present THEN "Conversation not found"
    ELSE IF ~h.allConversationMessages THEN "All conversation messages not found"
    ELSE IF ~h.conversationParticipants.present
         THEN "Conversation participants not found"
    ELSE IF ~h.assistants.present THEN "Assistants not found"
    ELSE "none"

\* a render that returns Loading before it looks at historyError
thrownLoadingFirst(h) ==
    IF h.historyIsLoading \/ h.assistantCapabilitiesIsFetching THEN "none"
    ELSE IF h.historyError THEN "Error loading conversation"
    ELSE IF ~h.conversation.present THEN "Conversation not found"
    ELSE IF ~h.allConversationMessages THEN "All conversation messages not found"
    ELSE IF ~h.conversationParticipants.present
         THEN "Conversation participants not found"
    ELSE IF ~h.assistants.present THEN "Assistants not found"
    ELSE IF ~h.conversationFiles THEN "Conversation files not found"
    ELSE "none"

\* lines 144-147 and 202-224: the error the render throws, "none" when it
\* throws none
thrown(h) ==
    IF h.historyError THEN "Error loading conversation"
    ELSE IF h.historyIsLoading \/ h.assistantCapabilitiesIsFetching THEN "none"
    ELSE IF ~h.conversation.present THEN "Conversation not found"
    ELSE IF ~h.allConversationMessages THEN "All conversation messages not found"
    ELSE IF ~h.conversationParticipants.present
         THEN "Conversation participants not found"
    ELSE IF ~h.assistants.present THEN "Assistants not found"
    ELSE IF ~h.conversationFiles THEN "Conversation files not found"
    ELSE "none"

\* a content whose canvas is never told that the view is read-only
contentCanvasWritable(h, userId, sorted, memoValue) ==
    LET readOnly == h.conversation.conversationPermission = "read"
    IN  [kind |-> "content", error |-> "none", readOnly |-> readOnly, sorted |-> sorted,
         otherParticipants |-> filterOthers(sorted, userId),
         historyReadOnly |-> readOnly, inputReadOnly |-> readOnly,
         canvasReadOnly |-> FALSE, conversationAssistants |-> memoValue]

\* lines 226-284: the content, given the memo value and the result of
\* sortParticipants
content(h, userId, sorted, memoValue) ==
    LET readOnly == h.conversation.conversationPermission = "read"
    IN  [kind |-> "content", error |-> "none", readOnly |-> readOnly, sorted |-> sorted,
         otherParticipants |-> filterOthers(sorted, userId),
         historyReadOnly |-> readOnly, inputReadOnly |-> readOnly,
         canvasReadOnly |-> readOnly, conversationAssistants |-> memoValue]

\* ------------------------------------------------------------------------
\* The view: mount, renders, events, unmount
\* ------------------------------------------------------------------------

\* handler closures the view creates in one run of the model
MaxHandlers == 3

\* refetchConversation() calls awaited at one time
MaxPending == 2

\* assistantsRefetch() calls not yet answered at one time
MaxDirectoryPending == 2

\* changes of the conversation on the service
MaxServerChanges == 2

u1 == [id |-> "u1", role |-> "user", active |-> TRUE]

a1 == [id |-> "a1", role |-> "assistant", active |-> TRUE]

a2 == [id |-> "a2", role |-> "assistant", active |-> TRUE]

a2Inactive == [id |-> "a2", role |-> "assistant", active |-> FALSE]

Bravo == [id |-> "a1", name |-> "Bravo"]

Alpha == [id |-> "a2", name |-> "alpha"]

\* the conversation data of one hook output
Data(conv, msgs, P, A, files) ==
    [conversation |-> conv, allConversationMessages |-> msgs,
     conversationParticipants |-> P, assistants |-> A, conversationFiles |-> files]

ReadWrite == [present |-> TRUE, conversationPermission |-> "read_write"]

ReadOnly == [present |-> TRUE, conversationPermission |-> "read"]

\* the conversation data the hook returns to the view: nothing yet; the
\* files still missing; a directory that has every active assistant, in and
\* out of name order; a directory that lacks the second or the first of two
\* active assistants
ViewData ==
    {Data(NoConversation, FALSE, Absent, Absent, FALSE),
     Data(ReadWrite, TRUE, Loaded(<<u1, a1>>), Loaded(<<Bravo>>), FALSE),
     Data(ReadWrite, TRUE, Loaded(<<a1, a2Inactive>>), Loaded(<<Bravo>>), TRUE),
     Data(ReadOnly, TRUE, Loaded(<<a1, a2>>), Loaded(<<Bravo, Alpha>>), TRUE),
     Data(ReadOnly, TRUE, Loaded(<<a1, a2>>), Loaded(<<Bravo>>), TRUE),
     Data(ReadOnly, TRUE, Loaded(<<a1, a2>>), Loaded(<<Alpha>>), TRUE)}

\* the data that come with either refetchConversation
BothRefetchData ==
    {Data(NoConversation, FALSE, Absent, Absent, FALSE),
     Data(ReadOnly, TRUE, Loaded(<<a1, a2>>), Loaded(<<Bravo, Alpha>>), TRUE)}

\* the hook outputs of the view specification: a load error before and after
\* the lists arrived; or, with the flags of one of the three returns of lines
\* 202-284, any of the data with the first refetchConversation and some with
\* the second
ViewHookOutputs ==
    {HookOutput(TRUE, TRUE, FALSE, NoConversation, FALSE, Absent, Absent, FALSE, "rc1"),
     HookOutput(TRUE, FALSE, FALSE, ReadOnly, TRUE, Loaded(<<a1, a2>>),
                Loaded(<<Bravo>>), TRUE, "rc1")}
    \cup
    {HookOutput(FALSE, flags[1], flags[2], d.conversation, d.allConversationMessages,
                d.conversationParticipants, d.assistants, d.conversationFiles, refetch) :
        flags \in {<<TRUE, FALSE>>, <<FALSE, TRUE>>, <<FALSE, FALSE>>},
        d \in ViewData, refetch \in {"rc1"}}
    \cup
    {HookOutput(FALSE, flags[1], flags[2], d.conversation, d.allConversationMessages,
                d.conversationParticipants, d.assistants, d.conversationFiles, refetch) :
        flags \in {<<TRUE, FALSE>>, <<FALSE, TRUE>>, <<FALSE, FALSE>>},
        d \in BothRefetchData, refetch \in {"rc2"}}

\* the conversations an event can name; the view shows the first
ConversationIds == {"c1", "c2"}

\* the conversationId of the view (line 123)
conversationId == "c1"

\* the payloads of 'conversation.updated' events
Events == [conversation_id : ConversationIds]

NoEvent == [conversation_id |-> "none"]

\* the record of the hook variables
Current ==
    HookOutput(historyError, historyIsLoading, assistantCapabilitiesIsFetching,
               conversation, allConversationMessages, conversationParticipants,
               assistants, conversationFiles, refetchConversation)

\* ------------------------------------------------------------------------
\* MyWorkbenchConnector.CreateAgentAsync (MyWorkbenchConnector.cs 33-61)
\* ------------------------------------------------------------------------

\* MyAgent instances created in one run of the model
MaxInstances == 2

\* the agent ids of the calls
AgentIds == {"x", "y"}

\* a string? argument that is null
null == "null"

\* the name arguments
AgentNames == {null, "n1", "n2"}

\* the properties of MyAgentConfig, and a property it does not have
ConfigProps == {"a", "b"}

ConfigKeys == ConfigProps \cup {"x"}

ConfigValues == {1, 2}

\* the configData arguments: null, an object that serializes to the JSON
\* null, or an object with some of the keys
ConfigData ==
    {[kind |-> "null", members |-> <<>>], [kind |-> "jsonNull", members |-> <<>>]}
    \cup
    {[kind |-> "object", members |-> m] :
        m \in UNION {[D -> ConfigValues] : D \in SUBSET ConfigKeys}}

\* a MyAgentConfig whose properties have the values of their initializers
ClassDefault == [p \in ConfigProps |-> 0]

\* this.DefaultAgentConfig (line 23): the "Agent" section of the application
\* configuration
DefaultAgentConfig == [p \in ConfigProps |-> 3]

\* JsonSerializer.Serialize(configData) of line 46: the JSON text
Serialize(configData) ==
    IF configData.kind = "object"
    THEN [isNull |-> FALSE, members |-> configData.members]
    ELSE [isNull |-> TRUE, members |-> <<>>]

\* JsonSerializer.Deserialize<MyAgentConfig>(json) of line 46: null for the
\* JSON null; else a MyAgentConfig with the members that name a property,
\* the other properties as initialized
Deserialize(json) ==
    IF json.isNull THEN [isNull |-> TRUE, value |-> ClassDefault]
    ELSE [isNull |-> FALSE,
          value |-> [p \in ConfigProps |->
                        IF p \in DOMAIN json.members THEN json.members[p]
                        ELSE ClassDefault[p]]]

\* a config that is the deserialized value whenever configData is not null
agentConfigUnchecked(configData) ==
    IF configData.kind = "null" THEN DefaultAgentConfig
    ELSE Deserialize(Serialize(configData)).value

\* lines 43-48: the config of the new agent
agentConfig(configData) ==
    IF configData.kind = "null" THEN DefaultAgentConfig
    ELSE LET newCfg == Deserialize(Serialize(configData))
         IN  IF ~newCfg.isNull THEN newCfg.value ELSE DefaultAgentConfig

\* line 54: name ?? agentId
agentName(name, agentId) == IF name # null THEN name ELSE agentId

\* no MyAgent instance
NoAgent == 0

\* this.GetAgent(agentId): the instance registered under agentId, or none
GetAgent(registry, agentId) == registry[agentId]

\* this.Agents.TryAdd(agentId, agent): adds the entry unless the key has one
TryAdd(registry, agentId, agent) ==
    IF registry[agentId] = NoAgent THEN [registry EXCEPT ![agentId] = agent]
    ELSE registry

\* a call that never returns at line 39
returnsEarlyNever(registry, agentId) == FALSE

\* line 39: whether the call returns before it creates anything
returnsEarly(registry, agentId) == GetAgent(registry, agentId) # NoAgent

\* lines 51-57: the MyAgent instance, with the arguments it was made from
MyAgent(agentId, name, configData) ==
    [agentId |-> agentId, name |-> agentName(name, agentId),
     config |-> agentConfig(configData),
     given |-> [name |-> name, configData |-> configData],
     state |-> "starting"]

\* the outcomes of StartAsync(cancellationToken)
Outcomes == {"started", "failed", "cancelled"}

\* a call that registers the agent however StartAsync ended
afterStartAlways(registry, agentId, agent, outcome) == TryAdd(registry, agentId, agent)

\* lines 59-60: the registry after the awaited StartAsync ended: an exception
\* of StartAsync leaves the method before line 60
afterStart(registry, agentId, agent, outcome) ==
    IF outcome = "started" THEN TryAdd(registry, agentId, agent) ELSE registry

\* what is recorded of a call
Step(kind, agentId, instance) == [kind |-> kind, agentId |-> agentId, instance |-> instance]

\* the connector after its construction: nothing registered, nothing created
NoConnector ==
    /\ Agents = [a \in AgentIds |-> NoAgent]
    /\ instances = <<>>
    /\ starting = {}
    /\ connectorStep = Step("none", "none", NoAgent)

\* the state before the first render, but for what the hook returns, the
\* user and the bus
InitRest ==
    /\ NoConnector
    /\ phase = "init"
    /\ effect = NoEffect
    /\ nextHandler = 1
    /\ added = <<>>
    /\ removed = <<>>
    /\ pending = 0
    /\ inflight = <<>>
    /\ server = 0
    /\ cache = 0
    /\ directoryPending = 0
    /\ memo = NoMemo
    /\ rendered = NoContent("none", "none")
    /\ lastStep = "none"
    /\ stepEvent = NoEvent
    /\ stepRefetchCalls = [f \in RefetchFns |-> 0]
    /\ stepAssistantsRefetchCalls = 0

\* the state before the first render, but for the two lists and the user
InitView ==
    /\ InitRest
    /\ historyError = FALSE
    /\ historyIsLoading = TRUE
    /\ assistantCapabilitiesIsFetching = FALSE
    /\ conversation = NoConversation
    /\ allConversationMessages = FALSE
    /\ conversationFiles = FALSE
    /\ refetchConversation = "rc1"

Init ==
    /\ InitView
    /\ conversationParticipants = Absent
    /\ assistants = Absent
    /\ localUserId = "u1"
    /\ listeners \in {{}, {OtherHandler}}

\* the hook variables take the values of h
Returned(h) ==
    /\ historyError' = h.historyError
    /\ historyIsLoading' = h.historyIsLoading
    /\ assistantCapabilitiesIsFetching' = h.assistantCapabilitiesIsFetching
    /\ conversation' = h.conversation
    /\ allConversationMessages' = h.allConversationMessages
    /\ conversationParticipants' = h.conversationParticipants
    /\ assistants' = h.assistants
    /\ conversationFiles' = h.conversationFiles
    /\ refetchConversation' = h.refetchConversation

\* the bus variables take the values of b
Committed(b) ==
    /\ listeners' = b.listeners
    /\ effect' = b.effect
    /\ nextHandler' = b.nextHandler
    /\ added' = b.added
    /\ removed' = b.removed

\* whether the hook returned its lists as new objects: a choice only when
\* they equal those of the last computation of the memo
RefsChanged(h) ==
    IF ~h.historyError /\ memo.ran
                       /\ memo.deps = <<h.assistants, h.conversationParticipants>>
    THEN BOOLEAN
    ELSE {FALSE}

\* what a step that renders nothing leaves alone
viewVars == <<phase, hookVars, localUserId, busVars, memo, rendered>>

\* a step that calls no refetchConversation and delivers no event
NoCalls ==
    /\ stepEvent' = NoEvent
    /\ stepRefetchCalls' = [f \in RefetchFns |-> 0]

\* one render of Chat with the hook output h, and its commit: a render that
\* throws unmounts the view, any other runs the effect
RenderWith(h, refsChanged) ==
    LET b == Bus(listeners, effect, nextHandler, added, removed)
        P == h.conversationParticipants
        A == h.assistants
        u == IF h.historyError THEN Kept(memo) ELSE useMemo(memo, P, A, refsChanged)
        b2 == IF thrown(h) # "none" THEN cleanup(b)
              ELSE useEffect(b, h.historyIsLoading, h.refetchConversation)
    IN  /\ b2.nextHandler <= MaxHandlers + 1
        /\ Returned(h)
        /\ Committed(b2)
        /\ memo' = u.memo
        /\ stepAssistantsRefetchCalls' = u.calls
        /\ phase' = IF thrown(h) # "none" THEN "crashed" ELSE "mounted"
        /\ IF thrown(h) # "none" THEN rendered' = NoContent("error", thrown(h))
           ELSE IF showsLoading(h) THEN rendered' = NoContent("loading", "none")
           ELSE \E sorted \in sortParticipants(P.items) :
                    rendered' = content(h, localUserId, sorted, u.memo.value)
        /\ UNCHANGED localUserId

\* the first render and every later one, with a hook output of H
RenderFrom(H) ==
    /\ phase \in {"init", "mounted"}
    /\ \E h \in H : \E refsChanged \in RefsChanged(h) : RenderWith(h, refsChanged)
    /\ directoryPending' = directoryPending + stepAssistantsRefetchCalls'
    /\ directoryPending' <= MaxDirectoryPending
    /\ lastStep' = "render"
    /\ NoCalls
    /\ UNCHANGED <<refetchVars, connectorVars>>

Render == RenderFrom(ViewHookOutputs)

\* React unmounts the view
Unmount ==
    /\ phase = "mounted"
    /\ Committed(cleanup(Bus(listeners, effect, nextHandler, added, removed)))
    /\ phase' = "unmounted"
    /\ lastStep' = "unmount"
    /\ NoCalls
    /\ stepAssistantsRefetchCalls' = 0
    /\ UNCHANGED <<hookVars, localUserId, refetchVars, directoryPending, memo, rendered,
                   connectorVars>>

\* a handler that leaves the events of other conversations alone
conversationHandlerOwnEvents(refetch, event, awaited) ==
    IF event.conversation_id = conversationId THEN <<refetch>> ELSE <<>>

\* a handler that leaves an event alone while an earlier call is awaited
conversationHandlerWhenIdle(refetch, event, awaited) ==
    IF awaited = 0 THEN <<refetch>> ELSE <<>>

\* lines 155-156: the calls one invocation of conversationHandler makes
\* before it awaits, for the event and the number of calls awaited by earlier
\* invocations: refetchConversation() of its closure, whatever they are
conversationHandler(refetch, event, awaited) == <<refetch>>

\* a handler that calls refetchConversation() again when the call failed
afterAwaitRetry(refetch, ok) == IF ok THEN <<>> ELSE <<refetch>>

\* a handler that calls refetchConversation() again when the call returns
afterAwaitAgain(refetch, ok) == <<refetch>>

\* line 157: the calls of the invocation once the awaited call has returned
\* or failed: none, the handler ends
afterAwait(refetch, ok) == <<>>

\* the calls of refetch by one dispatch of event to the listeners ls
dispatchCalls(ls, refetch, event, awaited) ==
    Cardinality({h \in ChatListeners(ls) :
        \E i \in 1..Len(conversationHandler(h.refetch, event, awaited)) :
            conversationHandler(h.refetch, event, awaited)[i] = refetch})

\* the calls of one dispatch
dispatchTotal(ls, event, awaited) ==
    dispatchCalls(ls, "rc1", event, awaited) + dispatchCalls(ls, "rc2", event, awaited)

\* s without its i-th entry
Without(s, i) == [j \in 1..(Len(s) - 1) |-> IF j < i THEN s[j] ELSE s[j + 1]]

\* n entries v
Repeat(v, n) == [j \in 1..n |-> v]

\* the bus delivers one 'conversation.updated' event, after `change` changes
\* of the conversation on the service: every listener is called once;
\* conversationHandler (lines 155-157) calls the refetchConversation of its
\* closure and awaits it; the call will return the conversation as it is now
EmitWith(event, change) ==
    LET n == dispatchTotal(listeners, event, pending)
    IN  /\ pending + n <= MaxPending
        /\ server' = server + change
        /\ stepRefetchCalls' =
               [f \in RefetchFns |-> dispatchCalls(listeners, f, event, pending)]
        /\ pending' = pending + n
        /\ inflight' = inflight \o Repeat(server', n)
        /\ lastStep' = "emit"
        /\ stepEvent' = event
        /\ stepAssistantsRefetchCalls' = 0
        /\ UNCHANGED <<viewVars, cache, directoryPending, connectorVars>>

\* an event for a conversation that has not changed
Emit == \E event \in Events : EmitWith(event, 0)

\* the conversation of a subscribed view changes on the service, which
\* sends the event
ServerUpdate ==
    /\ phase = "mounted"
    /\ ChatListeners(listeners) # {}
    /\ server < MaxServerChanges
    /\ EmitWith([conversation_id |-> conversationId], 1)

\* what the hook returns after a refetchConversation() call returned (ok) or
\* failed: a failure is reported as its error
hookAfterRefetch(H, ok) == {h \in H : h.historyError = ~ok}

\* the version the hook holds after a call returned `response` or failed:
\* what a call returns replaces what the hook held
hookCache(held, response, ok) == IF ok THEN response ELSE held

\* what the hook returns after an assistantsRefetch() call was answered: a
\* directory, the rest as in its output `current`
hookAfterDirectory(H, current) ==
    {h \in H : h.assistants.present /\ [h EXCEPT !.assistants = current.assistants] = current}

\* an awaited refetchConversation() returns or fails, in any order of the
\* calls; the hook takes what it returned, or reports the error, and React
\* renders a mounted view again with a hook output of H; the handler resumes
\* after its await (its closure is taken to hold the refetchConversation of
\* the last render)
SettleFrom(H) ==
    \E i \in 1..Len(inflight), ok \in BOOLEAN :
        LET refetch == refetchConversation
            again == afterAwait(refetch, ok)
        IN  /\ pending' = pending - 1 + Len(again)
            /\ pending' <= MaxPending
            /\ inflight' = Without(inflight, i) \o Repeat(server, Len(again))
            /\ cache' = hookCache(cache, inflight[i], ok)
            /\ server' = server
            /\ stepRefetchCalls' =
                   [f \in RefetchFns |-> IF f = refetch THEN Len(again) ELSE 0]
            /\ stepEvent' = NoEvent
            /\ lastStep' = IF ok THEN "settle" ELSE "failed"
            /\ UNCHANGED connectorVars
            /\ IF phase = "mounted"
               THEN /\ \E h \in hookAfterRefetch(H, ok) :
                          \E refsChanged \in RefsChanged(h) : RenderWith(h, refsChanged)
                    /\ directoryPending' = directoryPending + stepAssistantsRefetchCalls'
                    /\ directoryPending' <= MaxDirectoryPending
               ELSE /\ stepAssistantsRefetchCalls' = 0
                    /\ UNCHANGED <<viewVars, directoryPending>>

Settle == SettleFrom(ViewHookOutputs)

\* an assistantsRefetch() call is answered: the hook returns the directory it
\* delivered, and React renders a mounted view again, with the rest of the
\* hook output as it was
DirectoryArrives ==
    /\ directoryPending > 0
    /\ IF phase = "mounted"
       THEN /\ \E h \in hookAfterDirectory(ViewHookOutputs, Current) :
                  \E refsChanged \in RefsChanged(h) : RenderWith(h, refsChanged)
            /\ directoryPending' = directoryPending - 1 + stepAssistantsRefetchCalls'
       ELSE /\ directoryPending' = directoryPending - 1
            /\ stepAssistantsRefetchCalls' = 0
            /\ UNCHANGED viewVars
    /\ lastStep' = "directory"
    /\ NoCalls
    /\ UNCHANGED <<refetchVars, connectorVars>>

\* another subscriber adds its listener to the bus
OtherSubscribe ==
    /\ OtherHandler \notin listeners
    /\ listeners' = addEventListener(listeners, OtherHandler)
    /\ lastStep' = "other"
    /\ NoCalls
    /\ stepAssistantsRefetchCalls' = 0
    /\ UNCHANGED <<phase, hookVars, localUserId, effect, nextHandler, added, removed,
                   refetchVars, directoryPending, memo, rendered, connectorVars>>

\* another subscriber removes its listener from the bus
OtherUnsubscribe ==
    /\ OtherHandler \in listeners
    /\ listeners' = removeEventListener(listeners, OtherHandler)
    /\ lastStep' = "other"
    /\ NoCalls
    /\ stepAssistantsRefetchCalls' = 0
    /\ UNCHANGED <<phase, hookVars, localUserId, effect, nextHandler, added, removed,
                   refetchVars, directoryPending, memo, rendered, connectorVars>>

Next ==
    \/ Render
    \/ Unmount
    \/ Emit
    \/ Settle
    \/ DirectoryArrives
    \/ OtherSubscribe
    \/ OtherUnsubscribe

Spec == Init /\ [][Next]_vars

\* ------------------------------------------------------------------------
\* The first render on its own, for any hook output
\* ------------------------------------------------------------------------

\* every hook output
AllHookOutputs ==
    {HookOutput(err, loading, fetching, conv, msgs, P, A, files, refetch) :
        err \in BOOLEAN, loading \in BOOLEAN, fetching \in BOOLEAN,
        conv \in Conversations, msgs \in BOOLEAN,
        P \in {Absent, Loaded(<<u1, a1>>), Loaded(<<a1, a2>>)},
        A \in {Absent, Loaded(<<Bravo>>), Loaded(<<Bravo, Alpha>>)},
        files \in BOOLEAN, refetch \in RefetchFns}

InitRender ==
    /\ InitRest
    /\ \E h \in AllHookOutputs :
          /\ historyError = h.historyError
          /\ historyIsLoading = h.historyIsLoading
          /\ assistantCapabilitiesIsFetching = h.assistantCapabilitiesIsFetching
          /\ conversation = h.conversation
          /\ allConversationMessages = h.allConversationMessages
          /\ conversationParticipants = h.conversationParticipants
          /\ assistants = h.assistants
          /\ conversationFiles = h.conversationFiles
          /\ refetchConversation = h.refetchConversation
    /\ localUserId = "u1"
    /\ listeners = {}

\* the first render with the hook output of the state
FirstRender ==
    /\ phase = "init"
    /\ RenderWith(Current, FALSE)
    /\ directoryPending' = directoryPending + stepAssistantsRefetchCalls'
    /\ lastStep' = "render"
    /\ NoCalls
    /\ UNCHANGED <<refetchVars, connectorVars>>

NextRender == FirstRender

SpecRender == InitRender /\ [][NextRender]_vars

\* ------------------------------------------------------------------------
\* The refetches of a view whose conversation changes on the service
\* ------------------------------------------------------------------------

\* the hook outputs of a loaded conversation, and of a failed refetch
RefetchHookOutputs ==
    {HookOutput(err, FALSE, FALSE, ReadWrite, TRUE, Loaded(<<u1, a1>>),
                Loaded(<<Bravo>>), TRUE, "rc1") : err \in BOOLEAN}

RenderLoaded == RenderFrom(RefetchHookOutputs)

SettleLoaded == SettleFrom(RefetchHookOutputs)

NextRefetch == RenderLoaded \/ Emit \/ ServerUpdate \/ SettleLoaded

SpecRefetch == Init /\ [][NextRefetch]_vars

\* ------------------------------------------------------------------------
\* The connector: calls of CreateAgentAsync and the ends of StartAsync
\* ------------------------------------------------------------------------

\* one call of CreateAgentAsync up to its await (lines 39-59): it returns at
\* once for a registered id; else it makes the agent and calls StartAsync
CreateWith(agentId, name, configData) ==
    /\ IF returnsEarly(Agents, agentId)
       THEN /\ connectorStep' = Step("returned", agentId, GetAgent(Agents, agentId))
            /\ UNCHANGED <<Agents, instances, starting>>
       ELSE /\ Len(instances) < MaxInstances
            /\ instances' = Append(instances, MyAgent(agentId, name, configData))
            /\ starting' = starting \cup {Len(instances) + 1}
            /\ connectorStep' = Step("created", agentId, Len(instances) + 1)
            /\ UNCHANGED Agents
    /\ UNCHANGED chatVars

\* the awaited StartAsync of an instance ends, and its call goes on to line
\* 60 or leaves with the exception
StartSettles ==
    /\ \E i \in starting, outcome \in Outcomes :
          /\ instances' = [instances EXCEPT ![i].state = outcome]
          /\ Agents' = afterStart(Agents, instances[i].agentId, i, outcome)
          /\ starting' = starting \ {i}
          /\ connectorStep' = Step(outcome, instances[i].agentId, i)
    /\ UNCHANGED chatVars

\* the name and configData of the calls that run side by side
RaceInputs ==
    {<<null, [kind |-> "null", members |-> <<>>]>>,
     <<"n1", [kind |-> "object", members |-> [k \in {"a"} |-> 1]]>>}

\* a call with any id, while others may be awaiting
CreateAgentAsync ==
    \E agentId \in AgentIds, input \in RaceInputs : CreateWith(agentId, input[1], input[2])

\* the first call on a new connector, with any arguments
CreateFirst ==
    /\ instances = <<>>
    /\ \E agentId \in AgentIds, name \in AgentNames, configData \in ConfigData :
          CreateWith(agentId, name, configData)

InitConnector ==
    /\ InitView
    /\ conversationParticipants = Absent
    /\ assistants = Absent
    /\ localUserId = "u1"
    /\ listeners = {}

NextConnector == CreateAgentAsync \/ StartSettles

SpecConnector == InitConnector /\ [][NextConnector]_vars

NextCreate == CreateFirst \/ StartSettles

SpecCreate == InitConnector /\ [][NextCreate]_vars

\* ------------------------------------------------------------------------
\* The memo callback on its own: one pass on any two lists
\* ------------------------------------------------------------------------

\* the sequences over S of length at most n whose entries have distinct ids
DistinctIds(S, n) ==
    {s \in SeqsUpTo(S, n) : \A i, j \in 1..Len(s) : i # j => s[i].id # s[j].id}

\* the participant lists of a conversation
ParticipantLists == DistinctIds(ConversationParticipant, MaxParticipants)

\* the assistant directories
Directories == SeqsUpTo(Assistant, MaxDirectory)

InitAssistants ==
    /\ InitView
    /\ conversationParticipants \in {Absent} \cup {Loaded(P) : P \in ParticipantLists}
    /\ assistants \in {Absent} \cup {Loaded(A) : A \in Directories}
    /\ localUserId = "u1"
    /\ listeners = {}

\* the first computation of the memo on the lists of the state
MemoPass ==
    /\ ~memo.ran
    /\ memo' = useMemo(memo, conversationParticipants, assistants, FALSE).memo
    /\ stepAssistantsRefetchCalls' =
           useMemo(memo, conversationParticipants, assistants, FALSE).calls
    /\ directoryPending' = directoryPending + stepAssistantsRefetchCalls'
    /\ lastStep' = "memo"
    /\ UNCHANGED <<phase, hookVars, localUserId, busVars, refetchVars, rendered,
                   stepEvent, stepRefetchCalls, connectorVars>>

NextAssistants == MemoPass

SpecAssistants == InitAssistants /\ [][NextAssistants]_vars

\* ------------------------------------------------------------------------
\* The otherParticipants filter on its own
\* ------------------------------------------------------------------------

InitOthers ==
    /\ InitView
    /\ conversationParticipants \in {Loaded(P) : P \in ParticipantLists}
    /\ assistants = Absent
    /\ localUserId \in ParticipantIds
    /\ listeners = {}

\* lines 228-230 on the list and the user of the state
OthersPass ==
    /\ lastStep = "none"
    /\ \E sorted \in sortParticipants(conversationParticipants.items) :
          rendered' = [rendered EXCEPT !.sorted = sorted,
                          !.otherParticipants = filterOthers(sorted, localUserId)]
    /\ lastStep' = "others"
    /\ UNCHANGED <<phase, hookVars, localUserId, busVars, refetchVars, directoryPending,
                   memo, stepEvent, stepRefetchCalls, stepAssistantsRefetchCalls,
                   connectorVars>>

NextOthers == OthersPass

SpecOthers == InitOthers /\ [][NextOthers]_vars

\* ------------------------------------------------------------------------
\* Properties
\* ------------------------------------------------------------------------

\* the positions of the active participants of role 'assistant' in P
ActiveAssistants(P) == {i \in 1..Len(P) : P[i].active /\ P[i].role = "assistant"}

\* the positions of ActiveAssistants(P) with no entry of the same id in A
Unresolved(P, A) ==
    {i \in ActiveAssistants(P) : \A k \in 1..Len(A) : A[k].id # P[i].id}

\* a pass of the memo has run on two loaded lists
PassOnLoaded == memo.ran /\ conversationParticipants.present /\ assistants.present

\* s is ascending by name under the locale order
AscendingByName(s) ==
    \A i, j \in 1..Len(s) : i < j => LocaleRank[s[i].name] <= LocaleRank[s[j].name]

\* C1: when every active participant of role 'assistant' has an entry of its
\* id in the directory, the pass returns a list with one entry per such
\* participant, ascending by name under the locale comparison.
C1_CompleteAndSorted ==
    (PassOnLoaded /\ Unresolved(conversationParticipants.items, assistants.items) = {})
    => /\ memo.value.kind = "list"
       /\ Len(memo.value.items)
            = Cardinality(ActiveAssistants(conversationParticipants.items))
       /\ AscendingByName(memo.value.items)

\* a pass that resolved two assistants listed as "Bravo" before "alpha" and
\* returned them the other way round
C1_Witness ==
    /\ PassOnLoaded
    /\ Unresolved(conversationParticipants.items, assistants.items) = {}
    /\ Len(memo.value.items) = 2
    /\ memo.value.items[1].name = "alpha"
    /\ memo.value.items[2].name = "Bravo"
    /\ assistants.items[1].name = "Bravo"
    /\ conversationParticipants.items[1].id = assistants.items[1].id

\* C2: when some active participant of role 'assistant' has no entry in the
\* directory, the pass returns undefined and calls assistantsRefetch exactly
\* once, however many of them have none.
C2_MissRefetchesOnce ==
    (PassOnLoaded /\ Unresolved(conversationParticipants.items, assistants.items) # {})
    => /\ memo.value.kind = "undefined"
       /\ memo.value.items = <<>>
       /\ memo.value.refetches = 1
       /\ stepAssistantsRefetchCalls = 1

\* a pass on a list with two unresolvable active assistants
C2_Witness ==
    /\ PassOnLoaded
    /\ Cardinality(Unresolved(conversationParticipants.items, assistants.items)) >= 2
    /\ stepAssistantsRefetchCalls = 1

\* C10: participants that are inactive or not of role 'assistant' are never
\* looked up: every id handed to assistants.find and every entry returned
\* belongs to an active assistant participant, and when all of those are in
\* the directory the pass returns a list and refetches nothing; u1
\* user/active, a1 assistant/active, a2 assistant/inactive with the
\* directory [a1 'Bravo'] gives [a1 'Bravo'].
C10_OnlyActiveAssistantsLookedUp ==
    PassOnLoaded =>
        LET P == conversationParticipants.items
            A == assistants.items
            v == memo.value
        IN  /\ \A k \in 1..Len(v.lookedUp) :
                  \E i \in ActiveAssistants(P) : P[i].id = v.lookedUp[k]
            /\ \A k \in 1..Len(v.items) :
                  \E i \in ActiveAssistants(P) : P[i].id = v.items[k].id
            /\ Unresolved(P, A) = {} =>
                  (v.kind = "list" /\ v.refetches = 0 /\ stepAssistantsRefetchCalls = 0)
            /\ (P = <<u1, a1, a2Inactive>> /\ A = <<Bravo>>) =>
                  (v.kind = "list" /\ v.items = <<Bravo>>)

\* the pass on the scenario of the specification
C10_Witness ==
    /\ PassOnLoaded
    /\ conversationParticipants.items = <<u1, a1, a2Inactive>>
    /\ assistants.items = <<Bravo>>
    /\ memo.value.items = <<Bravo>>

\* C3: what the canvas is handed is never a partial list: it is the
\* directory entries of all active assistant participants, or it is undefined
\* and the pass that produced it called assistantsRefetch.
C3_NeverPartial ==
    rendered.kind = "content" =>
        LET P == conversationParticipants.items
            A == assistants.items
            v == rendered.conversationAssistants
        IN  \/ /\ v.kind = "list"
               /\ Len(v.items) = Cardinality(ActiveAssistants(P))
               /\ \A i \in ActiveAssistants(P) :
                     \E k \in 1..Len(v.items), j \in 1..Len(A) :
                        v.items[k] = A[j] /\ A[j].id = P[i].id
            \/ /\ v.kind = "undefined"
               /\ v.items = <<>>
               /\ v.refetches >= 1

\* content is shown although one of two active assistants is missing from
\* the directory and the other is in it
C3_Witness ==
    /\ rendered.kind = "content"
    /\ rendered.conversationAssistants.kind = "undefined"
    /\ Unresolved(conversationParticipants.items, assistants.items) # {}
    /\ Unresolved(conversationParticipants.items, assistants.items)
         # ActiveAssistants(conversationParticipants.items)

\* the calls of refetchConversation by the last step, whatever its identity
StepRefetchTotal == stepRefetchCalls["rc1"] + stepRefetchCalls["rc2"]

\* C4: an event delivered while the view is mounted with the history loaded
\* calls refetchConversation exactly once.
C4_EventRefetchesOnce ==
    (lastStep = "emit" /\ phase = "mounted" /\ ~historyIsLoading)
    => /\ StepRefetchTotal = 1
       /\ stepRefetchCalls[refetchConversation] = 1

\* an event delivered to the loaded view while an earlier refetch is awaited
C4_Witness ==
    /\ lastStep = "emit"
    /\ phase = "mounted"
    /\ ~historyIsLoading
    /\ StepRefetchTotal = 1
    /\ pending = 2

\* C5: an event delivered after the unmount calls refetchConversation zero
\* times.
C5_NoRefetchAfterUnmount ==
    (lastStep = "emit" /\ phase = "unmounted") => StepRefetchTotal = 0

\* an event delivered after the unmount of a view that had a listener
C5_Witness ==
    /\ lastStep = "emit"
    /\ phase = "unmounted"
    /\ added # <<>>

\* C6: the view has at most one listener on the bus in every state, and the
\* delivery of an event leaves the listeners as they are.
C6_AtMostOneListener ==
    /\ [](Cardinality(ChatListeners(listeners)) <= 1)
    /\ [][lastStep' = "emit" => listeners' = listeners]_vars

\* an event delivered while a refetch is awaited, to the listener of a view
\* that has replaced its listener before
C6_Witness ==
    /\ lastStep = "emit"
    /\ pending = 2
    /\ Cardinality(ChatListeners(listeners)) = 1
    /\ Len(added) >= 2

\* the listeners of the other subscribers
OtherListeners(ls) == ls \ ChatListeners(ls)

\* every closure the view added was removed exactly once, and nothing else was
AddsMatchRemoves ==
    /\ Len(added) = Len(removed)
    /\ \A i \in 1..Len(added) :
          Cardinality({j \in 1..Len(removed) : removed[j] = added[i]}) = 1

\* C7: after the unmount every handler the view added has been removed once,
\* none of them is left on the bus, and no step of the view touches the
\* listeners of the other subscribers.
C7_UnmountRemovesOwnHandlers ==
    /\ [](phase = "unmounted" => (ChatListeners(listeners) = {} /\ AddsMatchRemoves))
    /\ [][lastStep' \in {"render", "unmount"}
            => OtherListeners(listeners') = OtherListeners(listeners)]_vars

\* the view is unmounted after it added two handlers, and the listener of
\* the other subscriber is on the bus
C7_Witness ==
    /\ phase = "unmounted"
    /\ lastStep = "unmount"
    /\ Len(added) >= 2
    /\ listeners = {OtherHandler}

\* C8: while historyIsLoading is true the view has no listener on the bus,
\* and an event delivered then calls refetchConversation zero times.
C8_NoListenerWhileLoading ==
    historyIsLoading
    => /\ ChatListeners(listeners) = {}
       /\ lastStep = "emit" => StepRefetchTotal = 0

\* an event delivered while the history is loading again, after the listener
\* of the loaded view was removed
C8_Witness ==
    /\ historyIsLoading
    /\ phase = "mounted"
    /\ lastStep = "emit"
    /\ Len(removed) >= 1

\* o is s without the entries of the given id: the kept entries are those of
\* another id, one for one and in the order of s
IsWithoutId(o, s, id) ==
    LET kept == {i \in 1..Len(s) : s[i].id # id}
    IN  /\ Len(o) = Cardinality(kept)
        /\ \E g \in [1..Len(o) -> kept] :
              /\ \A i, j \in 1..Len(o) : i < j => g[i] < g[j]
              /\ \A i \in 1..Len(o) : o[i] = s[g[i]]

\* C9: the other participants are the result of sortParticipants without the
\* entries of the local user's id, in the order of that result.
C9_OthersAreSortedWithoutLocalUser ==
    lastStep = "others"
    => IsWithoutId(rendered.otherParticipants, rendered.sorted, localUserId)

\* the local user, an assistant, is the second of three sorted participants
\* and the first is of role 'user'
C9_Witness ==
    /\ lastStep = "others"
    /\ Len(rendered.sorted) = 3
    /\ rendered.sorted[2].id = localUserId
    /\ rendered.sorted[2].role = "assistant"
    /\ rendered.sorted[1].role = "user"
    /\ Len(rendered.otherParticipants) = 2

\* C11: when the hook reports an error the render throws the load error and
\* the view is gone: that render calls neither refetchConversation nor
\* assistantsRefetch, and no later step of the view calls refetchConversation.
C11_LoadErrorIsFatalWithoutRetry ==
    historyError
    => /\ phase = "crashed"
       /\ rendered.kind = "error"
       /\ rendered.error = "Error loading conversation"
       /\ ChatListeners(listeners) = {}
       /\ StepRefetchTotal = 0
       /\ stepAssistantsRefetchCalls = 0

\* an event delivered after the load error was thrown to a view that had its
\* listener on the bus, where the lists of the failed render have an
\* assistant missing from the directory
C11_Witness ==
    /\ historyError
    /\ lastStep = "emit"
    /\ added # <<>>
    /\ conversationParticipants.present
    /\ assistants.present
    /\ Unresolved(conversationParticipants.items, assistants.items) # {}

\* the five pieces of conversation data are all there
AllPresent ==
    /\ conversation.present
    /\ allConversationMessages
    /\ conversationParticipants.present
    /\ assistants.present
    /\ conversationFiles

\* the last step was a render without a load error and with loading finished
RenderedLoaded ==
    /\ lastStep = "render"
    /\ ~historyError
    /\ ~historyIsLoading
    /\ ~assistantCapabilitiesIsFetching

\* the errors of lines 206-224
NotFound ==
    {"Conversation not found", "All conversation messages not found",
     "Conversation participants not found", "Assistants not found",
     "Conversation files not found"}

\* C12: a render with loading finished and no load error throws one of the
\* "not found" errors when any of the five pieces of data is absent, and
\* returns the content when all five are present; content is never rendered
\* with a piece absent.
C12_MissingDataThrows ==
    /\ RenderedLoaded
       => IF AllPresent
          THEN phase = "mounted" /\ rendered.kind = "content"
          ELSE /\ phase = "crashed"
               /\ rendered.kind = "error"
               /\ rendered.error \in NotFound
    /\ rendered.kind = "content" => AllPresent

\* a render with loading finished where only the files are absent
C12_Witness ==
    /\ RenderedLoaded
    /\ conversation.present
    /\ allConversationMessages
    /\ conversationParticipants.present
    /\ assistants.present
    /\ ~conversationFiles
    /\ phase = "crashed"

\* the last render had no load error, all five pieces of data and a
\* directory that lacks an active assistant participant
RenderedMiss ==
    /\ lastStep \in {"render", "settle", "directory"}
    /\ phase # "unmounted"
    /\ ~historyError
    /\ AllPresent
    /\ Unresolved(conversationParticipants.items, assistants.items) # {}

\* C13: a render whose directory lacks an active assistant participant does
\* not throw: the view stays mounted and shows Loading or the content, and
\* the content has the undefined assistant list, with no assistant in it.
C13_MissIsNotFatal ==
    RenderedMiss
    => /\ phase = "mounted"
       /\ rendered.kind \in {"loading", "content"}
       /\ showsLoading(Current) <=> rendered.kind = "loading"
       /\ rendered.kind = "content"
          => /\ rendered.conversationAssistants.kind = "undefined"
             /\ rendered.conversationAssistants.items = <<>>

\* the content rendered on a miss while the assistantsRefetch() call of that
\* render is not yet answered
C13_Witness ==
    /\ RenderedMiss
    /\ rendered.kind = "content"
    /\ stepAssistantsRefetchCalls = 1
    /\ directoryPending > 0

\* C14: a refetchConversation() call that fails while the view is mounted
\* makes the next render throw the load error, which unmounts the view with
\* its listener removed; the handler calls refetchConversation() only when
\* an event is delivered to it, never after its await.
C14_FailedRefetchIsFatalWithoutRetry ==
    /\ [](lastStep # "emit" => StepRefetchTotal = 0)
    /\ [](lastStep = "failed" => phase \in {"crashed", "unmounted"})
    /\ [][(lastStep' = "failed" /\ phase = "mounted")
            => /\ phase' = "crashed"
               /\ rendered'.kind = "error"
               /\ rendered'.error = "Error loading conversation"
               /\ ChatListeners(listeners') = {}
               /\ pending' = pending - 1]_vars

\* a call of the handler of a mounted view has failed
C14_Witness ==
    /\ lastStep = "failed"
    /\ phase = "crashed"
    /\ historyError
    /\ added # <<>>
    /\ Len(added) = Len(removed)

\* C15 as stated: at most one refetchConversation() call of the subscription
\* is awaited at any time.
C15_AtMostOneInFlight == pending <= 1

\* C15: the events are handled one at a time, each by one call of
\* refetchConversation() per listener of the view, whether or not an earlier
\* call is still awaited: the awaited calls grow by one with every event the
\* view's listener gets.
C15_EveryEventStartsARefetch ==
    /\ [](pending = Len(inflight))
    /\ [][(lastStep' = "emit" /\ ChatListeners(listeners) # {})
            => /\ pending' = pending + 1
               /\ StepRefetchTotal' = 1]_vars

\* an event handled while the call of an earlier event is still awaited
C15_Witness ==
    /\ lastStep = "emit"
    /\ Cardinality(ChatListeners(listeners)) = 1
    /\ StepRefetchTotal = 1
    /\ pending = 2

\* C17: unmounting removes the listener and leaves the awaited calls alone;
\* when one of them returns or fails after the unmount, nothing the view
\* rendered or registered changes and no call is made.
C17_UnmountCancelsNothing ==
    /\ [][lastStep' = "unmount"
            => /\ pending' = pending
               /\ inflight' = inflight
               /\ ChatListeners(listeners') = {}
               /\ OtherListeners(listeners') = OtherListeners(listeners)]_vars
    /\ [][(phase = "unmounted" /\ lastStep' \in {"settle", "failed"})
            => /\ UNCHANGED <<viewVars, directoryPending>>
               /\ pending' = pending - 1
               /\ StepRefetchTotal' = 0
               /\ stepAssistantsRefetchCalls' = 0]_vars

\* a call that was awaited at the unmount has returned after it
C17_Witness ==
    /\ phase = "unmounted"
    /\ lastStep = "settle"
    /\ removed # <<>>
    /\ pending = 0

\* C18: whatever payload an event carries, the conversation of the view or
\* another, its delivery makes the same calls: one refetchConversation() of
\* the last render when the view is mounted and loaded; and it changes
\* nothing the view holds.
C18_PayloadIsIgnored ==
    /\ [](\A e1, e2 \in Events, f \in RefetchFns :
             dispatchCalls(listeners, f, e1, pending)
                 = dispatchCalls(listeners, f, e2, pending))
    /\ []((lastStep = "emit" /\ phase = "mounted" /\ ~historyIsLoading)
            => /\ stepEvent \in Events
               /\ stepRefetchCalls[refetchConversation] = 1
               /\ StepRefetchTotal = 1)
    /\ [][lastStep' = "emit" => UNCHANGED viewVars]_vars

\* an event that names another conversation has been handled by the view
C18_Witness ==
    /\ lastStep = "emit"
    /\ stepEvent.conversation_id # conversationId
    /\ phase = "mounted"
    /\ stepRefetchCalls[refetchConversation] = 1

\* C16 as stated: once every refetchConversation() call of a subscribed view
\* has returned, the version the view holds is the one on the service.
C16_ViewEqualsServerWhenIdle ==
    (phase = "mounted" /\ ChatListeners(listeners) # {} /\ pending = 0)
    => cache = server

\* the last step rendered a mounted view, with no load error, on lists whose
\* directory lacks an active assistant participant
MissRendered ==
    /\ lastStep \in {"render", "settle", "directory"}
    /\ phase = "mounted"
    /\ ~historyError
    /\ conversationParticipants.present
    /\ assistants.present
    /\ Unresolved(conversationParticipants.items, assistants.items) # {}

\* C19 as stated: every render pass on a directory that lacks an active
\* assistant participant calls assistantsRefetch().
C19_RefetchOnEveryRenderPass == MissRendered => stepAssistantsRefetchCalls = 1

\* C19: a render pass on a directory that lacks an active assistant
\* participant calls assistantsRefetch() once whenever one of the two lists
\* differs from those of the last computation of the memo, however many
\* calls were made before; no pass makes more than one call.
C19_RefetchOnEveryChangedPass ==
    /\ [](stepAssistantsRefetchCalls <= 1)
    /\ [][(MissRendered' /\ (~memo.ran
                              \/ memo.deps # <<assistants', conversationParticipants'>>))
            => stepAssistantsRefetchCalls' = 1]_vars

\* the directory delivered for an earlier call still lacks an assistant, and
\* the pass on it has called assistantsRefetch() again
C19_Witness ==
    /\ MissRendered
    /\ lastStep = "directory"
    /\ stepAssistantsRefetchCalls = 1
    /\ directoryPending > 0

\* C20: when an assistantsRefetch() call is answered with a directory that
\* has every active assistant participant, the render of the mounted view
\* that follows computes the list again: it is the complete list in name
\* order, and the content shows it.
C20_CompleteDirectoryHeals ==
    (/\ lastStep = "directory"
     /\ phase = "mounted"
     /\ conversationParticipants.present
     /\ assistants.present
     /\ Unresolved(conversationParticipants.items, assistants.items) = {})
    => /\ memo.ran
       /\ memo.deps = <<assistants, conversationParticipants>>
       /\ memo.value.kind = "list"
       /\ Len(memo.value.items)
            = Cardinality(ActiveAssistants(conversationParticipants.items))
       /\ \A i \in ActiveAssistants(conversationParticipants.items) :
             \E j \in 1..Len(memo.value.items) :
                 memo.value.items[j].id = conversationParticipants.items[i].id
       /\ AscendingByName(memo.value.items)
       /\ rendered.kind = "content" => rendered.conversationAssistants = memo.value

\* the content shows both assistants after the answer to an
\* assistantsRefetch() call
C20_Witness ==
    /\ lastStep = "directory"
    /\ phase = "mounted"
    /\ rendered.kind = "content"
    /\ rendered.conversationAssistants.kind = "list"
    /\ Len(rendered.conversationAssistants.items) = 2
    /\ stepAssistantsRefetchCalls = 0

\* C21: a pass of the memo callback with the participant list or the
\* directory absent returns the empty list, looks nothing up and calls
\* assistantsRefetch() zero times; a pass calls assistantsRefetch() only
\* with both lists present and an active assistant participant that the
\* directory lacks.
C21_AbsentListsGiveEmptyList ==
    /\ (memo.ran /\ lastStep = "memo"
          /\ (~conversationParticipants.present \/ ~assistants.present))
       => /\ memo.value.kind = "list"
          /\ memo.value.items = <<>>
          /\ memo.value.lookedUp = <<>>
          /\ memo.value.refetches = 0
          /\ stepAssistantsRefetchCalls = 0
          /\ directoryPending = 0
    /\ stepAssistantsRefetchCalls > 0
       => /\ conversationParticipants.present
          /\ assistants.present
          /\ Unresolved(conversationParticipants.items, assistants.items) # {}

\* a pass on a participant list with an active assistant while the
\* directory is absent
C21_Witness ==
    /\ memo.ran
    /\ lastStep = "memo"
    /\ conversationParticipants.present
    /\ ActiveAssistants(conversationParticipants.items) # {}
    /\ ~assistants.present
    /\ memo.value.kind = "list"

\* the render threw `error`
Threw(error) ==
    /\ phase = "crashed"
    /\ rendered.kind = "error"
    /\ rendered.error = error

\* C22: the outcome of a render is decided in a fixed order: the load error
\* first, also while loading; then the Loading placeholder while either
\* loading flag is set, whatever is absent; then the first absent piece of
\* conversation, messages, participants, assistants, files, in that order;
\* the content when nothing is absent.
C22_OutcomePrecedence ==
    lastStep = "render"
    => IF historyError THEN Threw("Error loading conversation")
       ELSE IF historyIsLoading \/ assistantCapabilitiesIsFetching
            THEN phase = "mounted" /\ rendered.kind = "loading"
       ELSE IF ~conversation.present THEN Threw("Conversation not found")
       ELSE IF ~allConversationMessages
            THEN Threw("All conversation messages not found")
       ELSE IF ~conversationParticipants.present
            THEN Threw("Conversation participants not found")
       ELSE IF ~assistants.present THEN Threw("Assistants not found")
       ELSE IF ~conversationFiles THEN Threw("Conversation files not found")
       ELSE phase = "mounted" /\ rendered.kind = "content"

\* the load error thrown by a render while loading is in progress and
\* nothing has arrived
C22_Witness ==
    /\ lastStep = "render"
    /\ historyError
    /\ historyIsLoading
    /\ ~conversation.present
    /\ ~conversationFiles
    /\ Threw("Error loading conversation")

\* C23: when a render of the mounted, loaded view gets another
\* refetchConversation than the last one, its commit removes the closure the
\* view had on the bus and adds a new one, which is then the only listener
\* of the view and holds the new function; every event delivered to the
\* mounted, loaded view calls the refetchConversation of the last render
\* once and no other.
C23_NewRefetchReplacesListener ==
    /\ [][(/\ phase = "mounted" /\ phase' = "mounted"
           /\ ~historyIsLoading /\ ~historyIsLoading'
           /\ refetchConversation' # refetchConversation)
            => /\ added # <<>>
               /\ removed' = Append(removed, added[Len(added)])
               /\ Len(added') = Len(added) + 1
               /\ \A i \in 1..Len(added) : added[i] # added'[Len(added')]
               /\ ChatListeners(listeners')
                    = {ChatHandler(added'[Len(added')], refetchConversation')}]_vars
    /\ []((lastStep = "emit" /\ phase = "mounted" /\ ~historyIsLoading)
            => \A f \in RefetchFns :
                   stepRefetchCalls[f] = IF f = refetchConversation THEN 1 ELSE 0)

\* an event delivered after the view got the second refetchConversation
C23_Witness ==
    /\ lastStep = "emit"
    /\ phase = "mounted"
    /\ ~historyIsLoading
    /\ refetchConversation = "rc2"
    /\ stepRefetchCalls["rc2"] = 1
    /\ stepRefetchCalls["rc1"] = 0
    /\ Len(added) = 2
    /\ Len(removed) = 1

\* C24: in every rendered content readOnly is true exactly when the
\* conversationPermission of the conversation is 'read', and InteractHistory,
\* InteractInput and ChatCanvas all get that value.
C24_ReadOnlyFollowsPermission ==
    rendered.kind = "content"
    => /\ conversation.present
       /\ rendered.readOnly <=> conversation.conversationPermission = "read"
       /\ rendered.historyReadOnly = rendered.readOnly
       /\ rendered.inputReadOnly = rendered.readOnly
       /\ rendered.canvasReadOnly = rendered.readOnly

\* the content of a conversation the user may only read
C24_Witness ==
    /\ rendered.kind = "content"
    /\ conversation.conversationPermission = "read"
    /\ rendered.historyReadOnly
    /\ rendered.inputReadOnly
    /\ rendered.canvasReadOnly

\* the instances made for agentId whose StartAsync ended well
Started(agentId) ==
    {i \in 1..Len(instances) :
        instances[i].agentId = agentId /\ instances[i].state = "started"}

\* C25: a call of CreateAgentAsync for an id that has a registered agent
\* returns with nothing created, nothing started and the registry as it
\* was; and no step ever replaces the agent registered under an id, so its
\* name and config stay those it was created with.
C25_RegisteredIdIsLeftAlone ==
    /\ [][\A a \in AgentIds :
            (Agents[a] # NoAgent /\ connectorStep'.kind \in {"returned", "created"}
                /\ connectorStep'.agentId = a)
            => /\ connectorStep'.kind = "returned"
               /\ UNCHANGED <<Agents, instances, starting>>]_vars
    /\ [][\A a \in AgentIds :
            Agents[a] # NoAgent
            => /\ Agents'[a] = Agents[a]
               /\ instances'[Agents[a]] = instances[Agents[a]]]_vars

\* a call for a registered id, given another name and configData than the
\* registered agent was made from, has returned
C25_Witness ==
    /\ connectorStep.kind = "returned"
    /\ Agents[connectorStep.agentId] = 1
    /\ instances[1].given.name = "n1"
    /\ Len(instances) = 1
    /\ starting = {}

\* C26 as stated: for each id at most one instance is ever started, and
\* every started instance is the one registered under its id.
C26_OneStartedAgentPerId ==
    \A a \in AgentIds :
        /\ Cardinality(Started(a)) <= 1
        /\ \A i \in Started(a) : Agents[a] = i

\* C27: the agent registered under an id is an instance whose StartAsync
\* ended well; a StartAsync that fails or is cancelled leaves the registry
\* as it was, and the next call for an id without a registered agent makes
\* and starts a new instance.
C27_RegisteredOnlyAfterStart ==
    /\ [](\A a \in AgentIds :
            Agents[a] # NoAgent
            => /\ instances[Agents[a]].state = "started"
               /\ instances[Agents[a]].agentId = a)
    /\ [](\A i \in 1..Len(instances) :
            instances[i].state = "starting" <=> i \in starting)
    /\ [][connectorStep'.kind \in {"failed", "cancelled"} => Agents' = Agents]_vars
    /\ [][\A a \in AgentIds :
            (Agents[a] = NoAgent /\ connectorStep'.kind \in {"returned", "created"}
                /\ connectorStep'.agentId = a)
            => /\ connectorStep'.kind = "created"
               /\ Len(instances') = Len(instances) + 1
               /\ instances'[Len(instances')].agentId = a
               /\ instances'[Len(instances')].state = "starting"
               /\ starting' = starting \cup {Len(instances')}]_vars

\* after the StartAsync of the first instance of an id failed, a second
\* instance made for the id is registered
C27_Witness ==
    /\ Len(instances) = 2
    /\ instances[1].agentId = instances[2].agentId
    /\ instances[1].state \in {"failed", "cancelled"}
    /\ Agents[instances[2].agentId] = 2

\* C28: the instance made by the first call has the default config when
\* configData is null or serializes to the JSON null, and else the config
\* deserialized from it: each property of MyAgentConfig with the value
\* configData gives it, or with the value of its initializer; its name is
\* the name given, or the agentId when the name is null.
C28_ConfigAndNameOfNewAgent ==
    \A i \in 1..Len(instances) :
        LET agent == instances[i]
            data == agent.given.configData
        IN  /\ agent.name = IF agent.given.name = null THEN agent.agentId
                            ELSE agent.given.name
            /\ data.kind \in {"null", "jsonNull"} => agent.config = DefaultAgentConfig
            /\ data.kind = "object"
               => \A p \in ConfigProps :
                      agent.config[p] = IF p \in DOMAIN data.members THEN data.members[p]
                                        ELSE ClassDefault[p]

\* an agent made from a null name and an object that serializes to null
C28_Witness ==
    /\ Len(instances) = 1
    /\ instances[1].given.name = null
    /\ instances[1].given.configData.kind = "jsonNull"
    /\ instances[1].name = instances[1].agentId
    /\ instances[1].config = DefaultAgentConfig

====
